---- MODULE Spec2Model ----
(***************************************************************************)
(* PagerDutyNotifyEntity (custom_components/pagerduty_notify/notify.py).   *)
(*                                                                         *)
(* The entity holds a routing key, a default source and a default          *)
(* severity, lazily creates one aiohttp.ClientSession, and has two         *)
(* coroutines: async_send_message (Deliver) and                            *)
(* async_will_remove_from_hass (Teardown).  Coroutines run on one event    *)
(* loop: a step of the model is the code between two suspension points.    *)
(***************************************************************************)
EXTENDS Integers, Sequences, FiniteSets, TLC

\* ---------------------------------------------------------------- bounds
MaxCalls == 2
MaxTeardowns == 2

\* calls are numbered in the order in which they are invoked
Calls == 1..MaxCalls
Teardowns == 1..MaxTeardowns

\* ------------------------------------------------------ program constants
EVENTS_API_URL == "https://events.pagerduty.com/v2/enqueue"
HTTP_TIMEOUT == 10

\* ------------------------------------------------------------ input sets
RoutingKeys == {"R-KEY", "R-OTHER"}
Sources == {"home-assistant"}
Severities == {"info"}
Messages == {"CPU at 95%"}
\* title: str | None = None
NoTitle == [present |-> FALSE, text |-> ""]
Titles == {NoTitle, [present |-> TRUE, text |-> ""],
           [present |-> TRUE, text |-> "High load"]}
Statuses == {202, 500}
Bodies == {"boom", ""}
\* what the try block can raise: session.post on a closed session, a
\* transport failure, the expiry of async_timeout.timeout
ExceptionKinds == {"RuntimeError", "ClientError", "TimeoutError"}

VARIABLES
    routing_key,   \* self._routing_key
    source,        \* self._source
    severity,      \* self._severity
    session,       \* self._session
    cfg,           \* the arguments __init__ was called with
    pc,            \* position of each async_send_message call
    args,          \* the arguments (message, title) of each call
    payload,       \* the local `payload` of each call
    status,        \* response.status seen by each call (0: none yet)
    body,          \* the local `body` of each call (<<>>: not read)
    elapsed,       \* time spent inside async_timeout.timeout: 0 while the
                   \* deadline is ahead, HTTP_TIMEOUT once it is reached
    client,        \* which ClientSession object each call posted on
    raised,        \* exception propagated to the caller of each call
    wire,          \* requests handed to the network, in order
    log,           \* records _LOGGER received from each call, in order
    tpc,           \* position of each async_will_remove_from_hass call
    traised,       \* exception propagated to the caller of each teardown
    created,       \* number of aiohttp.ClientSession() constructions
    releases       \* number of times a session's connector was closed

vars == <<routing_key, source, severity, session, cfg, pc, args, payload,
          status, body, elapsed, client, raised, wire, log, tpc, traised,
          created, releases>>

\* the fields __init__ assigns and no method assigns again
fields == <<routing_key, source, severity, cfg>>
\* the state of the teardown calls
teardownVars == <<tpc, traised, releases>>

\* ------------------------------------------------------------- helpers
\* self._session: aiohttp.ClientSession | None = None
NoSession == [isNone |-> TRUE, id |-> 0, closed |-> FALSE]

\* aiohttp.ClientSession()
NewSession(n) == [isNone |-> FALSE, id |-> n, closed |-> FALSE]

\* variant: a session is created on every call
NeedsCreateAlways(s) == TRUE

\* `if self._session is None:`
NeedsCreate(s) == s.isNone

\* variant: close() is called without the guard
HasSessionAlways(s) == TRUE

\* `if self._session:` (None is falsy, a ClientSession object is truthy)
HasSession(s) == ~s.isNone

\* variant: `message or title`
SummaryMessageFirst(title, message) ==
    IF message # "" THEN message ELSE title.text

\* `title or message`
Summary(title, message) ==
    IF title.present /\ title.text # "" THEN title.text ELSE message

\* variant: source and severity exchanged in the dict literal
BuildPayloadSwapped(key, src, sev, message, title) ==
    [routing_key |-> key,
     event_action |-> "trigger",
     payload |-> [summary |-> Summary(title, message),
                  source |-> sev,
                  severity |-> src]]

\* the dict literal `payload = {...}`
BuildPayload(key, src, sev, message, title) ==
    [routing_key |-> key,
     event_action |-> "trigger",
     payload |-> [summary |-> Summary(title, message),
                  source |-> src,
                  severity |-> sev]]

\* variant: the comparison inverted
IsAcceptedInverted(s) == s # 202

\* `response.status != 202` is false
IsAccepted(s) == s = 202

\* variant: `except aiohttp.ClientError:`
CaughtOnlyClientError(exc) == exc = "ClientError"

\* variant: a handler that lets asyncio.TimeoutError through
CaughtNoTimeout(exc) == exc # "TimeoutError"

\* `except Exception:` every kind the try block raises derives from Exception
Caught(exc) == exc \in ExceptionKinds

NoArgs == [message |-> "", title |-> NoTitle]

NoPayload == BuildPayload("", "", "", "", NoTitle)

InFlight(c) == pc[c] \in {"awaiting_response", "reading_body"}

\* _LOGGER.error("PagerDuty response %s: %s", response.status, body)
ResponseRecord(c, s, b) ==
    [call |-> c, kind |-> "response", status |-> s, body |-> b, exc |-> ""]

\* _LOGGER.exception("Failed to send PagerDuty event")
ExceptionRecord(c, exc) ==
    [call |-> c, kind |-> "exception", status |-> 0, body |-> "", exc |-> exc]

\* An exception raised inside the try block of call c: swallowed and logged
\* by the handler, otherwise propagated to the caller.
Raise(c, exc) ==
    /\ pc' = [pc EXCEPT ![c] = "done"]
    /\ elapsed' = elapsed
    /\ IF Caught(exc)
       THEN /\ log' = [log EXCEPT ![c] = Append(@, ExceptionRecord(c, exc))]
            /\ raised' = raised
       ELSE /\ log' = log
            /\ raised' = [raised EXCEPT ![c] = exc]

\* ---------------------------------------------------------------- Init
\* __init__: the state after construction
Init ==
    /\ cfg \in [routing_key : RoutingKeys, default_source : Sources,
                default_severity : Severities]
    /\ routing_key = cfg.routing_key
    /\ source = cfg.default_source
    /\ severity = cfg.default_severity
    /\ session = NoSession
    /\ pc = [c \in Calls |-> "idle"]
    /\ args = [c \in Calls |-> NoArgs]
    /\ payload = [c \in Calls |-> NoPayload]
    /\ status = [c \in Calls |-> 0]
    /\ body = [c \in Calls |-> <<>>]
    /\ elapsed = [c \in Calls |-> 0]
    /\ client = [c \in Calls |-> 0]
    /\ raised = [c \in Calls |-> "none"]
    /\ wire = <<>>
    /\ log = [c \in Calls |-> <<>>]
    /\ tpc = [t \in Teardowns |-> "idle"]
    /\ traised = [t \in Teardowns |-> "none"]
    /\ created = 0
    /\ releases = 0

\* ------------------------------------------------------------- Deliver
\* async_send_message up to its first suspension: lazy creation of the
\* session, the payload, entry of the timeout and the call of session.post.
\* post() on a closed session raises RuntimeError before anything is sent.
DeliverStart(c, message, title) ==
    /\ pc[c] = "idle"
    /\ \A d \in Calls : d < c => pc[d] # "idle"
    /\ LET s1 == IF NeedsCreate(session) THEN NewSession(created + 1)
                 ELSE session
           json == BuildPayload(routing_key, source, severity, message, title)
       IN /\ session' = s1
          /\ created' = IF NeedsCreate(session) THEN created + 1 ELSE created
          /\ args' = [args EXCEPT ![c] = [message |-> message, title |-> title]]
          /\ payload' = [payload EXCEPT ![c] = json]
          /\ client' = [client EXCEPT ![c] = s1.id]
          /\ IF s1.closed
             THEN /\ Raise(c, "RuntimeError")
                  /\ wire' = wire
             ELSE /\ wire' = Append(wire, [call |-> c, url |-> EVENTS_API_URL,
                                           json |-> json])
                  /\ pc' = [pc EXCEPT ![c] = "awaiting_response"]
                  /\ elapsed' = [elapsed EXCEPT ![c] = 0]
                  /\ UNCHANGED <<log, raised>>
    /\ UNCHANGED <<fields, teardownVars, status, body>>

\* The response head arrives before the timeout: `if response.status != 202`
\* either leaves the with blocks or suspends in `await response.text()`.
ResponseArrives(c, s) ==
    /\ pc[c] = "awaiting_response"
    /\ elapsed[c] < HTTP_TIMEOUT
    /\ status' = [status EXCEPT ![c] = s]
    /\ IF IsAccepted(s)
       THEN pc' = [pc EXCEPT ![c] = "done"]
       ELSE pc' = [pc EXCEPT ![c] = "reading_body"]
    /\ UNCHANGED <<fields, teardownVars, session, created, args, payload,
                   body, elapsed, client, raised, wire, log>>

\* `body = await response.text()` returns, then _LOGGER.error(...)
BodyArrives(c, b) ==
    /\ pc[c] = "reading_body"
    /\ elapsed[c] < HTTP_TIMEOUT
    /\ body' = [body EXCEPT ![c] = <<b>>]
    /\ log' = [log EXCEPT ![c] = Append(@, ResponseRecord(c, status[c], b))]
    /\ pc' = [pc EXCEPT ![c] = "done"]
    /\ UNCHANGED <<fields, teardownVars, session, created, args, payload,
                   status, elapsed, client, raised, wire>>

\* The transport fails while the call is suspended in post() or text()
TransportFails(c) ==
    /\ InFlight(c)
    /\ elapsed[c] < HTTP_TIMEOUT
    /\ Raise(c, "ClientError")
    /\ UNCHANGED <<fields, teardownVars, session, created, args, payload,
                   status, body, client, wire>>

\* async_timeout.timeout(HTTP_TIMEOUT) expires: the suspended await is
\* cancelled and the context manager raises asyncio.TimeoutError
TimeoutExpires(c) ==
    /\ InFlight(c)
    /\ elapsed[c] >= HTTP_TIMEOUT
    /\ Raise(c, "TimeoutError")
    /\ UNCHANGED <<fields, teardownVars, session, created, args, payload,
                   status, body, client, wire>>

\* HTTP_TIMEOUT time units pass while call c is still suspended: its deadline
\* is reached, and so is the deadline of every call that entered its timeout
\* block before c did (calls are numbered in the order they start).
Stall(c) ==
    /\ InFlight(c)
    /\ elapsed[c] < HTTP_TIMEOUT
    /\ elapsed' = [d \in Calls |->
                     IF InFlight(d) /\ d <= c THEN HTTP_TIMEOUT ELSE elapsed[d]]
    /\ UNCHANGED <<fields, teardownVars, session, created, pc, args, payload,
                   status, body, client, raised, wire, log>>

\* ------------------------------------------------------------ Teardown
\* async_will_remove_from_hass up to its first suspension.
\* ClientSession.close() closes the connector only `if not self.closed`,
\* and marks it closed before it suspends; None has no close().
TeardownStart(t) ==
    /\ tpc[t] = "idle"
    /\ \A u \in Teardowns : u < t => tpc[u] # "idle"
    /\ IF HasSession(session)
       THEN IF session.isNone
            THEN /\ tpc' = [tpc EXCEPT ![t] = "done"]
                 /\ traised' = [traised EXCEPT ![t] = "AttributeError"]
                 /\ UNCHANGED <<session, releases>>
            ELSE /\ tpc' = [tpc EXCEPT ![t] = "closing"]
                 /\ traised' = traised
                 /\ IF session.closed
                    THEN UNCHANGED <<session, releases>>
                    ELSE /\ session' = [session EXCEPT !.closed = TRUE]
                         /\ releases' = releases + 1
       ELSE /\ tpc' = [tpc EXCEPT ![t] = "done"]
            /\ UNCHANGED <<session, traised, releases>>
    /\ UNCHANGED <<fields, created, pc, args, payload, status, body, elapsed,
                   client, raised, wire, log>>

\* `await self._session.close()` returns
TeardownFinish(t) ==
    /\ tpc[t] = "closing"
    /\ tpc' = [tpc EXCEPT ![t] = "done"]
    /\ UNCHANGED <<fields, session, created, pc, args, payload, status, body,
                   elapsed, client, raised, wire, log, traised, releases>>

\* ---------------------------------------------------------------- Next
\* every step of the entity, with the call arguments and the response
\* bodies drawn from the given sets
NextOver(titles, bodies) ==
    \/ \E c \in Calls, m \in Messages, ti \in titles : DeliverStart(c, m, ti)
    \/ \E c \in Calls, s \in Statuses : ResponseArrives(c, s)
    \/ \E c \in Calls, b \in bodies : BodyArrives(c, b)
    \/ \E c \in Calls : TransportFails(c)
    \/ \E c \in Calls : TimeoutExpires(c)
    \/ \E c \in Calls : Stall(c)
    \/ \E t \in Teardowns : TeardownStart(t)
    \/ \E t \in Teardowns : TeardownFinish(t)

Next == NextOver(Titles, Bodies)

Spec == Init /\ [][Next]_vars

\* Termination does not depend on the texts: one routing key, one title and
\* one response body.
FairInit == Init /\ cfg.routing_key = "R-KEY"

FairNext == NextOver({NoTitle}, {"boom"})

\* The event loop is live: time passes for a suspended call, and a timer
\* that has expired fires.
FairSpec ==
    /\ FairInit
    /\ [][FairNext]_vars
    /\ \A c \in Calls : WF_vars(Stall(c))
    /\ \A c \in Calls : WF_vars(TimeoutExpires(c))

\* ----------------------------------------------------------- properties
Started(c) == pc[c] # "idle"

Done(c) == pc[c] = "done"

\* the requests of call c that were handed to the network
Posts(c) == {i \in 1..Len(wire) : wire[i].call = c}

\* the records of call c that report an exception of kind k
ExceptionRecords(c, k) ==
    {i \in 1..Len(log[c]) : log[c][i].kind = "exception" /\ log[c][i].exc = k}

\* C1: for a non-empty message, the summary of the request body is the
\* message when the title is absent and the title when it is non-empty.
SummaryIsTitleElseMessage ==
    \A c \in Calls :
        (Started(c) /\ args[c].message # "") =>
            /\ ~args[c].title.present =>
                   payload[c].payload.summary = args[c].message
            /\ (args[c].title.present /\ args[c].title.text # "") =>
                   payload[c].payload.summary = args[c].title.text

\* C1 witness: one call with a title and one without, both on the wire
SummaryBothCases ==
    \E c, d \in Calls :
        /\ Posts(c) # {} /\ Posts(d) # {}
        /\ args[c].title.present /\ args[c].title.text = "High load"
        /\ ~args[d].title.present /\ args[d].message = "CPU at 95%"

\* C2: no async_send_message call propagates an exception to its caller,
\* whatever the outcome and whatever the state of the session.
DeliverNeverRaises == \A c \in Calls : raised[c] = "none"

\* C2 witness: a call on a closed session and a call that timed out have
\* both returned
DeliverSwallowedFailures ==
    \E c, d \in Calls :
        /\ Done(c) /\ ExceptionRecords(c, "TimeoutError") # {}
        /\ Done(d) /\ ExceptionRecords(d, "RuntimeError") # {}

\* C3: every completed Deliver call has issued exactly one outbound POST.
ExactlyOnePostPerCall ==
    \A c \in Calls : Done(c) => Cardinality(Posts(c)) = 1

\* C4: a call whose response has status s # 202 and body b leaves exactly one
\* record, carrying s and b; a call whose response is 202 leaves none.
ErrorLoggedIffNot202 ==
    \A c \in Calls :
        Done(c) =>
            /\ (status[c] \notin {0, 202} /\ body[c] # <<>>) =>
                   /\ Len(log[c]) = 1
                   /\ log[c][1].kind = "response"
                   /\ log[c][1].status = status[c]
                   /\ log[c][1].body = body[c][1]
            /\ status[c] = 202 => log[c] = <<>>

\* C4 witness: one call answered 500 "boom", another answered 202
Logged500Boom ==
    \E c, d \in Calls :
        /\ Done(c) /\ status[c] = 500 /\ body[c] = <<"boom">>
        /\ Done(d) /\ status[d] = 202

\* C5: the stored routing key, source and severity stay what __init__ was
\* given, and every request body sent carries them, event_action "trigger"
\* and no field besides routing_key, event_action, payload{summary, source,
\* severity}.
BodyCarriesConfiguredFields ==
    /\ routing_key = cfg.routing_key
    /\ source = cfg.default_source
    /\ severity = cfg.default_severity
    /\ \A i \in 1..Len(wire) :
        /\ wire[i].url = EVENTS_API_URL
        /\ DOMAIN wire[i].json = {"routing_key", "event_action", "payload"}
        /\ DOMAIN wire[i].json.payload = {"summary", "source", "severity"}
        /\ wire[i].json.routing_key = cfg.routing_key
        /\ wire[i].json.event_action = "trigger"
        /\ wire[i].json.payload.source = cfg.default_source
        /\ wire[i].json.payload.severity = cfg.default_severity

\* C5 witness: a request sent after an earlier Deliver and a Teardown
BodySentAfterEarlierCalls ==
    /\ Len(wire) >= 2
    /\ \E t \in Teardowns : tpc[t] = "done"

\* C6: no teardown raises, a teardown without a session changes nothing, and
\* the session is released once however many teardowns close it.
TeardownReleasesOnce ==
    /\ \A t \in Teardowns : traised[t] = "none"
    /\ releases <= 1
    /\ created = 0 => (releases = 0 /\ session = NoSession)
    /\ (\E t \in Teardowns : tpc[t] = "closing") => releases = 1
    /\ session.closed <=> releases = 1

\* C6 witness: two teardowns are in close() of the same session, which was
\* released once
TeardownTwice ==
    /\ releases = 1
    /\ Cardinality({t \in Teardowns : tpc[t] = "closing"}) >= 2

\* a teardown before any Deliver has returned
TeardownWithoutDeliver ==
    /\ created = 0
    /\ \E t \in Teardowns : tpc[t] = "done"

\* C7: a call whose endpoint stalls past the timeout completes, with a
\* failure recorded and nothing raised; no call stays suspended for ever.
StalledDeliverCompletes ==
    \A c \in Calls :
        /\ (InFlight(c) /\ elapsed[c] >= HTTP_TIMEOUT) ~>
               (Done(c) /\ ExceptionRecords(c, "TimeoutError") # {}
                        /\ raised[c] = "none")
        /\ InFlight(c) ~> Done(c)

\* C7 witness: a call has returned after its timeout expired
TimedOutAndLogged ==
    \E c \in Calls :
        /\ Done(c)
        /\ elapsed[c] = HTTP_TIMEOUT
        /\ ExceptionRecords(c, "TimeoutError") # {}

\* C8: the session is not closed while a Deliver call is suspended between
\* sending its request and finishing reading the response.
NoReleaseWhileInUse ==
    \A c \in Calls : InFlight(c) => ~session.closed

\* C9: at most one ClientSession is ever created, and every Deliver call
\* that has started posted on that one session.
SessionCreatedOnce ==
    /\ created <= 1
    /\ \A c \in Calls : Started(c) => (created = 1 /\ client[c] = 1)

\* C9 witness: two Deliver calls suspended at the same time on one session
ConcurrentDeliversShareSession ==
    /\ created = 1
    /\ \E c, d \in Calls : c # d /\ InFlight(c) /\ InFlight(d)

\* C10: no Deliver call attempts its request on a session that has been
\* closed.
NoPostOnClosedSession ==
    \A c \in Calls : ExceptionRecords(c, "RuntimeError") = {}

TypeOK ==
    /\ pc \in [Calls -> {"idle", "awaiting_response", "reading_body", "done"}]
    /\ tpc \in [Teardowns -> {"idle", "closing", "done"}]
    /\ elapsed \in [Calls -> {0, HTTP_TIMEOUT}]
    /\ status \in [Calls -> {0} \cup Statuses]
    /\ created \in 0..MaxCalls
    /\ releases \in 0..MaxTeardowns
====
